---- MODULE Spec2Model ----
(***************************************************************************)
(* Model of the chat server in src/frontend/chat.js (lines 195-360): the   *)
(* in-memory users / usernames / groups tables, the socket.io rooms each   *)
(* socket has joined, and one action per socket event handler.  Node runs  *)
(* every handler to completion on one thread, so each handler is one       *)
(* atomic action.  An uncaught TypeError in a handler ends the process:    *)
(* it sets raised and no further event is handled.                         *)
(***************************************************************************)
EXTENDS Integers, Sequences, FiniteSets, TLC

\* ---- bounds ----
MaxConns == 3
MaxSteps == 6

\* ---- value domains ----
Conns == 1..MaxConns
Names == {"a", "b"}
\* JavaScript null / undefined (currentUser before login, a missing field)
Null == "<null>"
UserVals == Names \cup {Null}
Statuses == {"Online", "Busy"}
Avatars == {"av"}
TargetTypes == {"private", "group"}

VARIABLES
    conn,         \* socket lifecycle: "fresh" (not yet connected), "live", "gone"
    currentUser,  \* per-connection closure variable currentUser
    users,        \* Map socket.id -> {username, avatar, status}, in insertion order
    usernames,    \* Set of usernames
    groups,       \* Map groupName -> Set(usernames)
    rooms,        \* socket.io rooms each socket joined with socket.join
    recv,         \* events the last handler delivered to each connection
    lastUsers,    \* payload of the last io.emit('update_users')
    lastGroups,   \* payload of the last io.emit('update_groups')
    raised,       \* the last handler threw an uncaught TypeError
    last,         \* the event handled last
    loggedAs,     \* history: the usernames each connection has logged in with
    joined,       \* history: per group name, who sent an effective create_group / join_group
    memberAtExit, \* history: the groups a connection's username was in when it disconnected
    activeChat,   \* client: activeChat ref of each connection's page
    typingTimeout,\* client: the debounce timer of handleTyping, "idle" or "armed"
    pending,      \* history: per receiver, the senders whose display_typing is not yet hidden
    steps

vars == <<conn, currentUser, users, usernames, groups, rooms, recv,
          lastUsers, lastGroups, raised, last, loggedAs, joined, memberAtExit,
          activeChat, typingTimeout, pending, steps>>

\* the state of the client pages (chat.js:13, 83) and the typing history
clientVars == <<activeChat, typingTimeout, pending>>

\* activeChat = ref(null)
NoChat == [type |-> Null, id |-> Null]

\* ---- Map helpers (users is a sequence of entries keyed by id) ----
UsersHas(us, id) == \E i \in 1..Len(us) : us[i].id = id

UsersGet(us, id) == us[CHOOSE i \in 1..Len(us) : us[i].id = id]

\* Map.prototype.set: an existing key keeps its position, a new key is appended
UsersSet(us, id, rec) ==
    IF UsersHas(us, id)
    THEN [i \in 1..Len(us) |-> IF us[i].id = id THEN rec ELSE us[i]]
    ELSE Append(us, rec)

UsersDelete(us, id) == SelectSeq(us, LAMBDA e : e.id # id)

\* [...users.entries()].find(([_, data]) => data.username === to)?.[0]
FindSocketId(us, to) ==
    IF \E i \in 1..Len(us) : us[i].username = to
    THEN LET k == CHOOSE i \in 1..Len(us) :
                    /\ us[i].username = to
                    /\ \A j \in 1..(i-1) : us[j].username # to
         IN us[k].id
    ELSE 0

\* getUserList: the values of the map, without their keys
GetUserList(us) ==
    [i \in 1..Len(us) |->
        [username |-> us[i].username, avatar |-> us[i].avatar, status |-> us[i].status]]

\* getGroupList: name and members of every group
GetGroupList(gs) == {[name |-> g, members |-> gs[g]] : g \in DOMAIN gs}

NoGroups == [g \in {} |-> {}]

\* ---- events delivered to clients ----
Evt(ev, from, to, group, ulist, glist, flag) ==
    [ev |-> ev, from |-> from, to |-> to, group |-> group,
     users |-> ulist, groups |-> glist, flag |-> flag]

UpdateUsersEvt(ulist) == Evt("update_users", Null, Null, Null, ulist, {}, FALSE)
UpdateGroupsEvt(glist) == Evt("update_groups", Null, Null, Null, <<>>, glist, FALSE)
AckEvt(avail) == Evt("ack", Null, Null, Null, <<>>, {}, avail)
ReceivePrivateEvt(from, to) == Evt("receive_private", from, to, Null, <<>>, {}, FALSE)
ReceiveGroupEvt(g, from) == Evt("receive_group", from, Null, g, <<>>, {}, FALSE)
DisplayTypingEvt(from, isGroup, g) == Evt("display_typing", from, Null, g, <<>>, {}, isGroup)
HideTypingEvt(from) == Evt("hide_typing", from, Null, Null, <<>>, {}, FALSE)

NoRecv == [c \in Conns |-> <<>>]

\* deliver e to every connection of the set S
Emit(rv, S, e) == [c \in Conns |-> IF c \in S THEN Append(rv[c], e) ELSE rv[c]]

Live(cn) == {c \in Conns : cn[c] = "live"}

\* io.emit: every connected socket
IoEmit(rv, cn, e) == Emit(rv, Live(cn), e)

\* io.to(room): the connected sockets that joined the room
InRoom(cn, rm, room) == {c \in Live(cn) : room \in rm[c]}

\* io.to(socketId): a socket id is the room of that one socket while it is
\* connected; 0 stands for "no entry found"
ToSocket(cn, id) == {c \in Live(cn) : c = id}

Got(c, evname) == \E i \in 1..Len(recv[c]) : recv[c][i].ev = evname

Count(c, evname) == Cardinality({i \in 1..Len(recv[c]) : recv[c][i].ev = evname})

Event(type, c, arg, kind) == [type |-> type, conn |-> c, arg |-> arg, kind |-> kind]

Init ==
    /\ conn = [c \in Conns |-> "fresh"]
    /\ currentUser = [c \in Conns |-> Null]
    /\ users = <<>>
    /\ usernames = {}
    /\ groups = NoGroups
    /\ rooms = [c \in Conns |-> {}]
    /\ recv = NoRecv
    /\ lastUsers = <<>>
    /\ lastGroups = {}
    /\ raised = FALSE
    /\ last = Event("init", 0, Null, Null)
    /\ loggedAs = [c \in Conns |-> {}]
    /\ joined = [g \in Names |-> {}]
    /\ memberAtExit = [c \in Conns |-> {}]
    /\ activeChat = [c \in Conns |-> NoChat]
    /\ typingTimeout = [c \in Conns |-> "idle"]
    /\ pending = [c \in Conns |-> {}]
    /\ steps = 0

\* history only: the username of the Identity the registry holds for c when it
\* sends create_group / join_group, Null when it holds none
JoinerName(c) == IF UsersHas(users, c) THEN UsersGet(users, c).username ELSE Null

\* every handler runs in a live process, on a connected socket
Handles(c) == /\ ~raised
              /\ steps < MaxSteps
              /\ conn[c] = "live"

\* io.on('connection'): socket ids are fresh, connections are numbered in order
Connect(c) ==
    /\ ~raised
    /\ steps < MaxSteps
    /\ conn[c] = "fresh"
    /\ \A d \in Conns : d < c => conn[d] # "fresh"
    /\ conn' = [conn EXCEPT ![c] = "live"]
    /\ currentUser' = [currentUser EXCEPT ![c] = Null]
    /\ recv' = NoRecv
    /\ last' = Event("connection", c, Null, Null)
    /\ steps' = steps + 1
    /\ UNCHANGED <<loggedAs, joined, memberAtExit>>
    /\ UNCHANGED <<users, usernames, groups, rooms, lastUsers, lastGroups, raised>>

\* socket.on('check_username')
CheckUsername(c, username) ==
    /\ Handles(c)
    /\ recv' = Emit(NoRecv, {c}, AckEvt(~(username \in usernames)))
    /\ last' = Event("check_username", c, username, Null)
    /\ steps' = steps + 1
    /\ UNCHANGED <<loggedAs, joined, memberAtExit>>
    /\ UNCHANGED <<conn, currentUser, users, usernames, groups, rooms,
                   lastUsers, lastGroups, raised>>

\* socket.on('login')
Login(c, username, avatar, status) ==
    /\ Handles(c)
    /\ currentUser' = [currentUser EXCEPT ![c] = username]
    /\ usernames' = usernames \cup {username}
    /\ users' = UsersSet(users, c,
                    [id |-> c, username |-> username, avatar |-> avatar,
                     status |-> IF status = Null THEN "Online" ELSE status])
    /\ rooms' = [rooms EXCEPT ![c] = @ \cup {username}]
    /\ lastUsers' = GetUserList(users')
    /\ recv' = Emit(IoEmit(NoRecv, conn, UpdateUsersEvt(GetUserList(users'))),
                    {c}, UpdateGroupsEvt(GetGroupList(groups)))
    /\ last' = Event("login", c, username, Null)
    /\ loggedAs' = [loggedAs EXCEPT ![c] = @ \cup {username}]
    /\ steps' = steps + 1
    /\ UNCHANGED <<joined, memberAtExit>>
    /\ UNCHANGED <<conn, groups, lastGroups, raised>>

\* set_status that changes the status and forgets the broadcast
SetStatusNoBroadcast(c, status) ==
    /\ Handles(c)
    /\ IF UsersHas(users, c)
       THEN users' = UsersSet(users, c, [UsersGet(users, c) EXCEPT !.status = status])
       ELSE UNCHANGED users
    /\ recv' = NoRecv
    /\ last' = Event("set_status", c, status, Null)
    /\ steps' = steps + 1
    /\ UNCHANGED <<conn, currentUser, usernames, groups, rooms, lastUsers,
                   lastGroups, raised, loggedAs, joined, memberAtExit>>

\* socket.on('set_status')
SetStatus(c, status) ==
    /\ Handles(c)
    /\ IF UsersHas(users, c)
       THEN /\ users' = UsersSet(users, c, [UsersGet(users, c) EXCEPT !.status = status])
            /\ lastUsers' = GetUserList(users')
            /\ recv' = IoEmit(NoRecv, conn, UpdateUsersEvt(GetUserList(users')))
       ELSE /\ recv' = NoRecv
            /\ UNCHANGED <<users, lastUsers>>
    /\ last' = Event("set_status", c, status, Null)
    /\ steps' = steps + 1
    /\ UNCHANGED <<loggedAs, joined, memberAtExit>>
    /\ UNCHANGED <<conn, currentUser, usernames, groups, rooms, lastGroups, raised>>

\* socket.on('private_message'): sender.username throws when the socket has
\* no entry in users
PrivateMessage(c, to) ==
    /\ Handles(c)
    /\ IF ~UsersHas(users, c)
       THEN /\ raised' = TRUE
            /\ recv' = NoRecv
       ELSE LET sender == UsersGet(users, c)
                recipientSocketId == FindSocketId(users, to)
                msgData == ReceivePrivateEvt(sender.username, to)
                toRecipient == IF recipientSocketId # 0
                               THEN Emit(NoRecv, ToSocket(conn, recipientSocketId), msgData)
                               ELSE NoRecv
            IN /\ recv' = Emit(toRecipient, {c}, msgData)
               /\ UNCHANGED raised
    /\ last' = Event("private_message", c, to, Null)
    /\ steps' = steps + 1
    /\ UNCHANGED <<loggedAs, joined, memberAtExit>>
    /\ UNCHANGED <<conn, currentUser, users, usernames, groups, rooms,
                   lastUsers, lastGroups>>

\* group_message that only tests groups.has(groupName), not the membership
GroupMessageNoMemberCheck(c, groupName) ==
    /\ Handles(c)
    /\ IF groupName \in DOMAIN groups
       THEN IF ~UsersHas(users, c)
            THEN /\ raised' = TRUE
                 /\ recv' = NoRecv
            ELSE /\ recv' = Emit(NoRecv, InRoom(conn, rooms, groupName),
                                 ReceiveGroupEvt(groupName, UsersGet(users, c).username))
                 /\ UNCHANGED raised
       ELSE /\ recv' = NoRecv
            /\ UNCHANGED raised
    /\ last' = Event("group_message", c, groupName, Null)
    /\ steps' = steps + 1
    /\ UNCHANGED <<conn, currentUser, users, usernames, groups, rooms,
                   lastUsers, lastGroups, loggedAs, joined, memberAtExit>>

\* socket.on('group_message'): groups.has(groupName) short-circuits, so
\* sender.username is read (and throws for an unregistered socket) only when
\* the group exists
GroupMessage(c, groupName) ==
    /\ Handles(c)
    /\ IF groupName \in DOMAIN groups
       THEN IF ~UsersHas(users, c)
            THEN /\ raised' = TRUE
                 /\ recv' = NoRecv
            ELSE LET sender == UsersGet(users, c)
                 IN /\ recv' = IF sender.username \in groups[groupName]
                               THEN Emit(NoRecv, InRoom(conn, rooms, groupName),
                                         ReceiveGroupEvt(groupName, sender.username))
                               ELSE NoRecv
                    /\ UNCHANGED raised
       ELSE /\ recv' = NoRecv
            /\ UNCHANGED raised
    /\ last' = Event("group_message", c, groupName, Null)
    /\ steps' = steps + 1
    /\ UNCHANGED <<loggedAs, joined, memberAtExit>>
    /\ UNCHANGED <<conn, currentUser, users, usernames, groups, rooms,
                   lastUsers, lastGroups>>

\* the body shared by socket.on('typing') and socket.on('stop_typing'):
\* private resolves the target through users and reads sender.username only
\* when a recipient was found; group always reads sender.username and uses
\* socket.to(target), which leaves out the sending socket
RelayEvt(evname, from, isGroup, g) ==
    IF evname = "typing" THEN DisplayTypingEvt(from, isGroup, g) ELSE HideTypingEvt(from)

TypingRelay(c, target, type, evname) ==
    /\ Handles(c)
    /\ IF type = "private"
       THEN LET recipientSocketId == FindSocketId(users, target)
            IN IF recipientSocketId # 0
               THEN IF ~UsersHas(users, c)
                    THEN /\ raised' = TRUE
                         /\ recv' = NoRecv
                    ELSE /\ recv' = Emit(NoRecv, ToSocket(conn, recipientSocketId),
                                         RelayEvt(evname, UsersGet(users, c).username, FALSE, Null))
                         /\ UNCHANGED raised
               ELSE /\ recv' = NoRecv
                    /\ UNCHANGED raised
       ELSE IF ~UsersHas(users, c)
            THEN /\ raised' = TRUE
                 /\ recv' = NoRecv
            ELSE /\ recv' = Emit(NoRecv, InRoom(conn, rooms, target) \ {c},
                                 RelayEvt(evname, UsersGet(users, c).username, TRUE, target))
                 /\ UNCHANGED raised
    /\ last' = Event(evname, c, target, type)
    /\ steps' = steps + 1
    /\ UNCHANGED <<loggedAs, joined, memberAtExit>>
    /\ UNCHANGED <<conn, currentUser, users, usernames, groups, rooms,
                   lastUsers, lastGroups>>

\* socket.on('typing')
Typing(c, target, type) == TypingRelay(c, target, type, "typing")

\* socket.on('stop_typing')
StopTyping(c, target, type) == TypingRelay(c, target, type, "stop_typing")

\* create_group that sets the group without testing groups.has(groupName)
CreateGroupOverwrite(c, groupName) ==
    /\ Handles(c)
    /\ groups' = [g \in DOMAIN groups \cup {groupName} |->
                     IF g = groupName THEN {currentUser[c]} ELSE groups[g]]
    /\ rooms' = [rooms EXCEPT ![c] = @ \cup {groupName}]
    /\ lastGroups' = GetGroupList(groups')
    /\ recv' = IoEmit(NoRecv, conn, UpdateGroupsEvt(GetGroupList(groups')))
    /\ joined' = [joined EXCEPT ![groupName] = @ \cup {JoinerName(c)}]
    /\ last' = Event("create_group", c, groupName, Null)
    /\ steps' = steps + 1
    /\ UNCHANGED <<loggedAs, memberAtExit>>
    /\ UNCHANGED <<conn, currentUser, users, usernames, lastUsers, raised>>

\* socket.on('create_group')
CreateGroup(c, groupName) ==
    /\ Handles(c)
    /\ IF ~(groupName \in DOMAIN groups)
       THEN /\ groups' = (groupName :> {currentUser[c]}) @@ groups
            /\ rooms' = [rooms EXCEPT ![c] = @ \cup {groupName}]
            /\ lastGroups' = GetGroupList(groups')
            /\ recv' = IoEmit(NoRecv, conn, UpdateGroupsEvt(GetGroupList(groups')))
            /\ joined' = [joined EXCEPT ![groupName] = @ \cup {JoinerName(c)}]
       ELSE /\ recv' = NoRecv
            /\ UNCHANGED <<groups, rooms, lastGroups, joined>>
    /\ last' = Event("create_group", c, groupName, Null)
    /\ steps' = steps + 1
    /\ UNCHANGED <<loggedAs, memberAtExit>>
    /\ UNCHANGED <<conn, currentUser, users, usernames, lastUsers, raised>>

\* join_group that creates the group when it is absent
JoinGroupCreates(c, groupName) ==
    /\ Handles(c)
    /\ groups' = [g \in DOMAIN groups \cup {groupName} |->
                     IF g = groupName
                     THEN (IF g \in DOMAIN groups THEN groups[g] ELSE {}) \cup {currentUser[c]}
                     ELSE groups[g]]
    /\ rooms' = [rooms EXCEPT ![c] = @ \cup {groupName}]
    /\ lastGroups' = GetGroupList(groups')
    /\ recv' = IoEmit(NoRecv, conn, UpdateGroupsEvt(GetGroupList(groups')))
    /\ joined' = [joined EXCEPT ![groupName] = @ \cup {JoinerName(c)}]
    /\ last' = Event("join_group", c, groupName, Null)
    /\ steps' = steps + 1
    /\ UNCHANGED <<loggedAs, memberAtExit>>
    /\ UNCHANGED <<conn, currentUser, users, usernames, lastUsers, raised>>

\* join_group that replaces the member set instead of adding to it
JoinGroupReplaces(c, groupName) ==
    /\ Handles(c)
    /\ IF groupName \in DOMAIN groups
       THEN /\ groups' = [groups EXCEPT ![groupName] = {currentUser[c]}]
            /\ rooms' = [rooms EXCEPT ![c] = @ \cup {groupName}]
            /\ lastGroups' = GetGroupList(groups')
            /\ recv' = IoEmit(NoRecv, conn, UpdateGroupsEvt(GetGroupList(groups')))
            /\ joined' = [joined EXCEPT ![groupName] = @ \cup {JoinerName(c)}]
       ELSE /\ recv' = NoRecv
            /\ UNCHANGED <<groups, rooms, lastGroups, joined>>
    /\ last' = Event("join_group", c, groupName, Null)
    /\ steps' = steps + 1
    /\ UNCHANGED <<loggedAs, memberAtExit>>
    /\ UNCHANGED <<conn, currentUser, users, usernames, lastUsers, raised>>

\* socket.on('join_group')
JoinGroup(c, groupName) ==
    /\ Handles(c)
    /\ IF groupName \in DOMAIN groups
       THEN /\ groups' = [groups EXCEPT ![groupName] = @ \cup {currentUser[c]}]
            /\ rooms' = [rooms EXCEPT ![c] = @ \cup {groupName}]
            /\ lastGroups' = GetGroupList(groups')
            /\ recv' = IoEmit(NoRecv, conn, UpdateGroupsEvt(GetGroupList(groups')))
            /\ joined' = [joined EXCEPT ![groupName] = @ \cup {JoinerName(c)}]
       ELSE /\ recv' = NoRecv
            /\ UNCHANGED <<groups, rooms, lastGroups, joined>>
    /\ last' = Event("join_group", c, groupName, Null)
    /\ steps' = steps + 1
    /\ UNCHANGED <<loggedAs, memberAtExit>>
    /\ UNCHANGED <<conn, currentUser, users, usernames, lastUsers, raised>>

\* disconnect without the groups.forEach(members => members.delete(currentUser))
DisconnectKeepsGroups(c) ==
    /\ Handles(c)
    /\ conn' = [conn EXCEPT ![c] = "gone"]
    /\ rooms' = [rooms EXCEPT ![c] = {}]
    /\ IF currentUser[c] # Null
       THEN /\ usernames' = usernames \ {currentUser[c]}
            /\ users' = UsersDelete(users, c)
            /\ lastUsers' = GetUserList(users')
            /\ recv' = IoEmit(NoRecv, conn', UpdateUsersEvt(GetUserList(users')))
       ELSE /\ recv' = NoRecv
            /\ UNCHANGED <<usernames, users, lastUsers>>
    /\ last' = Event("disconnect", c, Null, Null)
    /\ steps' = steps + 1
    /\ memberAtExit' = [memberAtExit EXCEPT ![c] =
                          {g \in DOMAIN groups : currentUser[c] \in groups[g]}]
    /\ UNCHANGED <<loggedAs, joined>>
    /\ UNCHANGED <<currentUser, groups, lastGroups, raised>>

\* socket.on('disconnect'): the socket has left all its rooms and is no
\* longer connected when the handler runs; currentUser null skips the body
Disconnect(c) ==
    /\ Handles(c)
    /\ conn' = [conn EXCEPT ![c] = "gone"]
    /\ rooms' = [rooms EXCEPT ![c] = {}]
    /\ IF currentUser[c] # Null
       THEN /\ usernames' = usernames \ {currentUser[c]}
            /\ users' = UsersDelete(users, c)
            /\ groups' = [g \in DOMAIN groups |-> groups[g] \ {currentUser[c]}]
            /\ lastUsers' = GetUserList(users')
            /\ recv' = IoEmit(NoRecv, conn', UpdateUsersEvt(GetUserList(users')))
       ELSE /\ recv' = NoRecv
            /\ UNCHANGED <<usernames, users, groups, lastUsers>>
    /\ last' = Event("disconnect", c, Null, Null)
    /\ steps' = steps + 1
    /\ memberAtExit' = [memberAtExit EXCEPT ![c] =
                          {g \in DOMAIN groups : currentUser[c] \in groups[g]}]
    /\ UNCHANGED <<loggedAs, joined>>
    /\ UNCHANGED <<currentUser, lastGroups, raised>>

Next ==
    \/ \E c \in Conns : Connect(c) /\ UNCHANGED clientVars
    \/ \E c \in Conns, u \in Names : CheckUsername(c, u) /\ UNCHANGED clientVars
    \/ \E c \in Conns, u \in UserVals, a \in Avatars, s \in Statuses \cup {Null} :
          Login(c, u, a, s) /\ UNCHANGED clientVars
    \/ \E c \in Conns, s \in Statuses : SetStatus(c, s) /\ UNCHANGED clientVars
    \/ \E c \in Conns, to \in Names : PrivateMessage(c, to) /\ UNCHANGED clientVars
    \/ \E c \in Conns, g \in Names : GroupMessage(c, g) /\ UNCHANGED clientVars
    \/ \E c \in Conns, t \in Names, k \in TargetTypes : Typing(c, t, k) /\ UNCHANGED clientVars
    \/ \E c \in Conns, t \in Names, k \in TargetTypes : StopTyping(c, t, k) /\ UNCHANGED clientVars
    \/ \E c \in Conns, g \in Names : CreateGroup(c, g) /\ UNCHANGED clientVars
    \/ \E c \in Conns, g \in Names : JoinGroup(c, g) /\ UNCHANGED clientVars
    \/ \E c \in Conns : Disconnect(c) /\ UNCHANGED clientVars

Spec == Init /\ [][Next]_vars
\* ======================================================================
\* The client page's typing logic (chat.js:35-40, 83-92) on top of the server
\* ======================================================================

\* the typing history after a handler run by sender s delivered rv: a
\* display_typing from s is outstanding at r until a hide_typing from s
\* reaches r or r is no longer connected
PendingAfter(pd, rv, cn, s) ==
    [r \in Conns |->
        IF cn[r] # "live" THEN {}
        ELSE IF \E i \in 1..Len(rv[r]) : rv[r][i].ev = "hide_typing" THEN pd[r] \ {s}
        ELSE IF \E i \in 1..Len(rv[r]) : rv[r][i].ev = "display_typing" THEN pd[r] \cup {s}
        ELSE pd[r]]

\* the page connects
ClientConnect(c) ==
    /\ Connect(c)
    /\ UNCHANGED clientVars

\* setup(): socket.emit('login', {username, avatar}) once, before any UI action
ClientLogin(c, username) ==
    /\ ~UsersHas(users, c)
    /\ Login(c, username, "av", Null)
    /\ UNCHANGED clientVars

\* createGroup
ClientCreateGroup(c, name) ==
    /\ UsersHas(users, c)
    /\ CreateGroup(c, name)
    /\ UNCHANGED clientVars

\* joinGroup
ClientJoinGroup(c, name) ==
    /\ UsersHas(users, c)
    /\ JoinGroup(c, name)
    /\ UNCHANGED clientVars

\* selectChat: a private chat with oneself is refused
SelectChat(c, type, id) ==
    /\ ~raised
    /\ conn[c] = "live"
    /\ UsersHas(users, c)
    /\ ~(type = "private" /\ id = currentUser[c])
    /\ activeChat[c] # [type |-> type, id |-> id]
    /\ activeChat' = [activeChat EXCEPT ![c] = [type |-> type, id |-> id]]
    /\ UNCHANGED <<conn, currentUser, users, usernames, groups, rooms, recv,
                   lastUsers, lastGroups, raised, last, loggedAs, joined,
                   memberAtExit, typingTimeout, pending, steps>>

\* handleTyping: emits typing for the active chat and restarts the 1 s timer
HandleTyping(c) ==
    /\ UsersHas(users, c)
    /\ activeChat[c] # NoChat
    /\ Typing(c, activeChat[c].id, activeChat[c].type)
    /\ typingTimeout' = [typingTimeout EXCEPT ![c] = "armed"]
    /\ pending' = PendingAfter(pending, recv', conn', c)
    /\ UNCHANGED activeChat

\* the setTimeout callback: emits stop_typing for the chat that is active when
\* the timer fires; on a socket that has disconnected the emit reaches no
\* handler of this connection
TypingTimeoutFires(c) ==
    /\ typingTimeout[c] = "armed"
    /\ typingTimeout' = [typingTimeout EXCEPT ![c] = "idle"]
    /\ UNCHANGED activeChat
    /\ IF conn[c] = "live"
       THEN /\ StopTyping(c, activeChat[c].id, activeChat[c].type)
            /\ pending' = PendingAfter(pending, recv', conn', c)
       ELSE UNCHANGED <<conn, currentUser, users, usernames, groups, rooms, recv,
                        lastUsers, lastGroups, raised, last, loggedAs, joined,
                        memberAtExit, pending, steps>>

\* the page's socket disconnects; its timer is left as it is
ClientDisconnect(c) ==
    /\ Disconnect(c)
    /\ pending' = PendingAfter(pending, recv', conn', c)
    /\ UNCHANGED <<activeChat, typingTimeout>>

NextTyping ==
    \/ \E c \in Conns : ClientConnect(c)
    \/ \E c \in Conns, u \in Names : ClientLogin(c, u)
    \/ \E c \in Conns, g \in Names : ClientCreateGroup(c, g)
    \/ \E c \in Conns, g \in Names : ClientJoinGroup(c, g)
    \/ \E c \in Conns, k \in TargetTypes, id \in Names : SelectChat(c, k, id)
    \/ \E c \in Conns : HandleTyping(c)
    \/ \E c \in Conns : TypingTimeoutFires(c)
    \/ \E c \in Conns : ClientDisconnect(c)

SpecTyping == Init /\ [][NextTyping]_vars

\* ======================================================================
\* Properties
\* ======================================================================

\* the usernames of the Identity records in the Connection Registry
RegistryNames(us) == {us[i].username : i \in 1..Len(us)}

Registered(c) == UsersHas(users, c)

UsernameOf(c) == UsersGet(users, c).username

\* the connection's registered username is a member of the existing group g
MemberConn(c, g) ==
    /\ Registered(c)
    /\ g \in DOMAIN groups
    /\ UsernameOf(c) \in groups[g]

GotEvt(rv, c, e) == \E i \in 1..Len(rv[c]) : rv[c][i] = e

\* C1: no two distinct live connections hold an Identity with the same
\* username in the Connection Registry.
C1_UniqueLiveUsername ==
    \A i, j \in 1..Len(users) :
        (i # j /\ conn[users[i].id] = "live" /\ conn[users[j].id] = "live")
            => users[i].username # users[j].username

\* C2: after every handler the Username Directory (usernames) equals the set
\* of usernames of the Identity records in the Connection Registry (users).
C2_DirectoryEqualsRegistry == usernames = RegistryNames(users)

\* C3: a receive_group for group g is delivered only to a connection whose
\* currently registered username is in g's member set.
C3_GroupDeliveryOnlyToMembers ==
    \A c \in Conns : \A i \in 1..Len(recv[c]) :
        recv[c][i].ev = "receive_group" => MemberConn(c, recv[c][i].group)

\* C4: when a registered member of g sends group_message to g, every live
\* connection whose registered username is in g's member set, the sender's
\* included, gets a receive_group.
C4_GroupDeliveryToAllMembers ==
    (last.type = "group_message" /\ MemberConn(last.conn, last.arg))
        => \A c \in Live(conn) :
              MemberConn(c, last.arg)
                  => GotEvt(recv, c, ReceiveGroupEvt(last.arg, UsernameOf(last.conn)))

\* the sender c is not a member of g, or g does not exist
NotMemberOrNoGroup(c, g) == ~MemberConn(c, g)

\* C5: a group_message from a connection whose username is not in the target
\* group's member set, or to a group that does not exist, delivers nothing to
\* any connection (the sender included) and leaves users, usernames and
\* groups unchanged.
C5_NonMemberGroupMessageDropped ==
    [][\A c \in Conns, g \in Names :
          (GroupMessage(c, g) /\ NotMemberOrNoGroup(c, g))
              => /\ recv' = NoRecv
                 /\ users' = users
                 /\ usernames' = usernames
                 /\ groups' = groups]_vars

\* C5 witness: a registered non-member sent to an existing group that has a
\* connected member in its room, and nothing was delivered
C5_Witness ==
    /\ last.type = "group_message"
    /\ Registered(last.conn)
    /\ last.arg \in DOMAIN groups
    /\ ~(UsernameOf(last.conn) \in groups[last.arg])
    /\ \E d \in Live(conn) : d # last.conn /\ last.arg \in rooms[d] /\ MemberConn(d, last.arg)
    /\ recv = NoRecv

\* C6: a private_message to a username no live connection is registered
\* under gives the sender exactly one receive_private, gives no other
\* connection anything, and raises no error.
C6_PrivateToOfflineEchoesOnce ==
    (last.type = "private_message" /\ ToSocket(conn, FindSocketId(users, last.arg)) = {})
        => /\ Len(recv[last.conn]) = 1
           /\ Count(last.conn, "receive_private") = 1
           /\ \A c \in Conns \ {last.conn} : recv[c] = <<>>
           /\ ~raised

\* C7: after the disconnect of a connection that had logged in with username
\* u, u is in no group's member set and in no Identity of the update_users
\* snapshot that disconnect broadcast.
C7_DisconnectRemovesUsername ==
    last.type = "disconnect"
        => \A u \in loggedAs[last.conn] :
              /\ \A g \in DOMAIN groups : ~(u \in groups[g])
              /\ \A c \in Conns : \A i \in 1..Len(recv[c]) :
                    recv[c][i].ev = "update_users"
                        => \A k \in 1..Len(recv[c][i].users) :
                              recv[c][i].users[k].username # u

\* C8: every handler that changes a group's member set broadcasts an
\* update_groups with the full current group snapshot to every connected
\* client, so the last update_groups broadcast equals the Group Directory.
C8_GroupChangeBroadcast ==
    [][groups' # groups
          => /\ lastGroups' = GetGroupList(groups')
             /\ \A c \in Live(conn') :
                   GotEvt(recv', c, UpdateGroupsEvt(GetGroupList(groups')))]_vars

\* C9: every handler that changes the Connection Registry broadcasts an
\* update_users with the full registry snapshot after the change to every
\* connected client, so the last update_users broadcast equals the registry.
C9_RegistryChangeBroadcast ==
    /\ [](lastUsers = GetUserList(users))
    /\ [][users' # users
            => \A c \in Live(conn') :
                  GotEvt(recv', c, UpdateUsersEvt(GetUserList(users')))]_vars

\* C9 witness: a registered connection changed its status while another
\* client was connected, and both got the snapshot with the new status
C9_Witness ==
    /\ last.type = "set_status"
    /\ Registered(last.conn)
    /\ UsersGet(users, last.conn).status = "Busy"
    /\ Cardinality(Live(conn)) >= 2
    /\ \A c \in Live(conn) : GotEvt(recv, c, UpdateUsersEvt(GetUserList(users)))

\* C10: every handler finishes without raising an error, whatever state the
\* sending connection is in.
C10_NoHandlerRaises == ~raised
\* C11: join_group naming a group that does not exist creates no group,
\* changes no member set, enrolls the caller in no room and emits nothing.
C11_JoinAbsentGroupNoOp ==
    [][\A c \in Conns, g \in Names :
          (JoinGroup(c, g) /\ ~(g \in DOMAIN groups))
              => /\ groups' = groups
                 /\ rooms' = rooms
                 /\ lastGroups' = lastGroups
                 /\ recv' = NoRecv
                 /\ raised' = raised]_vars

\* C11 witness: a join_group for an absent name was handled while another
\* group with a member existed and other clients were connected
C11_Witness ==
    /\ last.type = "join_group"
    /\ ~(last.arg \in DOMAIN groups)
    /\ \E g \in DOMAIN groups : groups[g] # {}
    /\ Cardinality(Live(conn)) >= 2
    /\ recv = NoRecv

\* C12: create_group naming an existing group changes no member set, enrolls
\* the caller in no room and emits nothing; create_group on a new name by a
\* registered connection yields the member set {creator's username}.
C12_CreateGroupOnceOnly ==
    [][\A c \in Conns, g \in Names :
          CreateGroup(c, g)
              => IF g \in DOMAIN groups
                 THEN /\ groups' = groups
                      /\ rooms' = rooms
                      /\ lastGroups' = lastGroups
                      /\ recv' = NoRecv
                      /\ raised' = raised
                 ELSE /\ DOMAIN groups' = DOMAIN groups \cup {g}
                      /\ \A h \in DOMAIN groups : groups'[h] = groups[h]
                      /\ Registered(c) => groups'[g] = {UsernameOf(c)}]_vars

\* C12 witness: create_group named a group created by somebody else, whose
\* member set still does not hold the caller
C12_Witness ==
    /\ last.type = "create_group"
    /\ Registered(last.conn)
    /\ last.arg \in DOMAIN groups
    /\ groups[last.arg] # {}
    /\ ~(UsernameOf(last.conn) \in groups[last.arg])
    /\ ~(last.arg \in rooms[last.conn])
    /\ recv = NoRecv

\* some live connection holds an Identity with username u
HeldByLive(u) ==
    \E i \in 1..Len(users) : users[i].username = u /\ conn[users[i].id] = "live"

\* C14: check_username(u) answers available:false exactly when some live
\* connection holds an Identity with username u.
C14_ProbeMatchesRegistry ==
    last.type = "check_username"
        => recv[last.conn] = <<AckEvt(~HeldByLive(last.arg))>>

\* the connections a group_message from c to g reaches
GroupMessageReach(c, g) ==
    IF MemberConn(c, g) THEN InRoom(conn, rooms, g) ELSE {}

\* C15: a typing / stop_typing of kind group for target g reaches exactly the
\* connections a group_message from the same sender to g would reach, the
\* sender included, and nobody when g is absent or the sender no member.
C15_GroupTypingReach ==
    (last.type \in {"typing", "stop_typing"} /\ last.kind = "group")
        => {c \in Conns : recv[c] # <<>>} = GroupMessageReach(last.conn, last.arg)

\* C16: every member added to a group is the registered username of the
\* adding connection; create_group / join_group from a connection without
\* an Identity adds no member and enrolls it in no room.
C16_MembersAreRegisteredNames ==
    [][\A c \in Conns, g \in Names :
          (CreateGroup(c, g) \/ JoinGroup(c, g))
              => IF Registered(c)
                 THEN \A h \in DOMAIN groups' :
                         groups'[h] \subseteq
                            (IF h \in DOMAIN groups THEN groups[h] ELSE {})
                                \cup {UsernameOf(c)}
                 ELSE /\ \A h \in DOMAIN groups' :
                            groups'[h] \subseteq
                               (IF h \in DOMAIN groups THEN groups[h] ELSE {})
                      /\ rooms' = rooms]_vars

\* C18: for each private_message every connection receives at most one
\* receive_private, also when the addressed username is the sender's own.
C18_AtMostOnePrivatePerConnection ==
    last.type = "private_message"
        => \A c \in Conns : Count(c, "receive_private") <= 1

\* C19: whenever every connection that connected has disconnected, users is
\* empty, usernames is empty and every group's member set is empty.
C19_AllGoneAllEmpty ==
    ((\E c \in Conns : conn[c] = "gone") /\ Live(conn) = {})
        => /\ users = <<>>
           /\ usernames = {}
           /\ \A g \in DOMAIN groups : groups[g] = {}
\* no connection has disconnected so far
NoneGone == \A c \in Conns : conn[c] # "gone"

C17_MembershipSurvivesDisconnect ==
    last.type = "login"
        => \A d \in Conns \ {last.conn} :
              (conn[d] = "gone" /\ currentUser[d] = last.arg /\ last.arg # Null)
                  => \A g \in memberAtExit[d] : last.arg \in groups[g]

\* C17 as amended: the disconnect of a connection whose current username is u
\* removes u from every group's member set, and a login changes no member
\* set, so the connection that logs in as u afterwards is a member of g only
\* through a create_group or join_group sent after that disconnect.
C17_MembershipEndsAtDisconnect ==
    [][\A c \in Conns :
          /\ (Disconnect(c) /\ currentUser[c] # Null)
                => /\ DOMAIN groups' = DOMAIN groups
                   /\ \A g \in DOMAIN groups' :
                         groups'[g] = groups[g] \ {currentUser[c]}
          /\ (last'.type = "login" /\ last'.conn = c) => groups' = groups]_vars

\* C17 witness: a connection logged in under the username of a connection
\* that was a group member when it disconnected, and is not a member
C17_Witness ==
    /\ last.type = "login"
    /\ last.arg # Null
    /\ \E d \in Conns \ {last.conn} :
          /\ conn[d] = "gone"
          /\ currentUser[d] = last.arg
          /\ memberAtExit[d] # {}
          /\ \A g \in memberAtExit[d] : ~(last.arg \in groups[g])
\* C20: every display_typing from S delivered to R is followed by a
\* hide_typing from S delivered to R while R stays connected, once S's
\* debounce timer has fired.  Stated on finite runs: a display_typing that is
\* still outstanding at a connected R has S's timer armed behind it; with no
\* timer armed nothing is left that would ever send the hide_typing.
C20_TypingIsHidden ==
    \A r \in Live(conn) : \A s \in pending[r] : typingTimeout[s] = "armed"
====
